---- MODULE Spec2Model ----
(***************************************************************************)
(* Model of dashboard_financiero.py: the cached download helper            *)
(* descargar_datos, the metrics helper calcular_metricas and the           *)
(* top-to-bottom render pass that the UI framework re-runs on every user   *)
(* interaction.                                                            *)
(*                                                                         *)
(* Numbers.  pandas/numpy work on IEEE doubles.  The model keeps every     *)
(* finite value as an exact fraction <<n, d>> (d > 0, lowest terms) and    *)
(* the three non-finite doubles as <<0,0>> (NaN), <<1,0>> (+inf) and       *)
(* <<-1,0>> (-inf), with the IEEE rules for them (x/0, inf-inf, 0*inf,     *)
(* NaN never equal to anything, NaN skipped by the pandas reductions).     *)
(* The statistics are the exact real ones, rounded once to two decimals    *)
(* (halves to even): a double's last-bit error is not modelled, so a       *)
(* variance that is exactly zero in the reals is zero in the model, and a  *)
(* value exactly between two hundredths is rounded as a real.              *)
(*                                                                         *)
(* The pass.  Between the summary cards and the end of the script only     *)
(* the correlation matrix is modelled; the chart, table and download       *)
(* widgets are taken to render what they are given without raising.  The   *)
(* metrics columns VaR 5%, Max Retorno and Min Retorno are left out.       *)
(***************************************************************************)
EXTENDS Integers, Sequences, FiniteSets, TLC

VARIABLES
    now,                    \* wall clock, seconds (datetime.now())
    activos_seleccionados,  \* multiselect widget: sequence of distinct tickers
    tipo_periodo,           \* radio widget: "Predefinido" | "Personalizado"
    periodo,                \* selectbox widget: one of Periodos
    desde, hasta,           \* date_input widgets (days)
    limpiar,                \* the "Limpiar Cache" button was the interaction
    cache,                  \* st.cache_data store of descargar_datos
    pc,                     \* position of the script in the current pass
    fecha_inicio, fecha_fin,\* the pass's date range
    idx,                    \* loop index of descargar_datos
    datos,                  \* the price table (DataFrame)
    errores,                \* descargar_datos' list of warnings
    respuestas,             \* what the provider answered, per ticker, this call
    consultas,              \* tickers the provider was asked for, this pass
    salida,                 \* what the pass showed: aviso, error, excepcion, ok
    metricas, retornos,     \* calcular_metricas' two results
    correlaciones,          \* retornos.corr()
    previa,                 \* the first pass that fetched with this selection
    reinicio,               \* this pass is the rerun started by st.rerun()
    pasadas                 \* number of render passes started

vars == <<now, activos_seleccionados, tipo_periodo, periodo, desde, hasta,
          limpiar, cache, pc, fecha_inicio, fecha_fin, idx, datos, errores,
          respuestas, consultas, salida, metricas, retornos, correlaciones,
          previa, reinicio, pasadas>>

----------------------------------------------------------------------------
(* Bounds of the model *)

\* dates a provider answer can cover: 1..MaxFecha
MaxFecha == 2
\* render passes of one behaviour
MaxPasadas == 3
\* rows of a price table handed to calcular_metricas
MaxFilas == 3

----------------------------------------------------------------------------
(* Extended numbers *)

NaN == <<0, 0>>
PInf == <<1, 0>>
NInf == <<-1, 0>>

Abs(x) == IF x < 0 THEN -x ELSE x

RECURSIVE Gcd(_, _)
Gcd(a, b) == IF b = 0 THEN a ELSE Gcd(b, a % b)

\* the fraction n/d (d # 0) in lowest terms with a positive denominator
Frac(n, d) ==
    LET g == Gcd(Abs(n), Abs(d))
        s == IF d < 0 THEN -1 ELSE 1
    IN  <<(s * n) \div g, (s * d) \div g>>

Ent(n) == <<n, 1>>

IsNaN(x) == x = NaN
IsInf(x) == x[2] = 0 /\ x[1] # 0
IsFin(x) == x[2] > 0
Sgn(x) == IF x[1] > 0 THEN 1 ELSE IF x[1] < 0 THEN -1 ELSE 0

\* IEEE addition
Add(x, y) ==
    IF IsNaN(x) \/ IsNaN(y) THEN NaN
    ELSE IF IsInf(x) /\ IsInf(y) THEN (IF x = y THEN x ELSE NaN)
    ELSE IF IsInf(x) THEN x
    ELSE IF IsInf(y) THEN y
    ELSE LET g == Gcd(x[2], y[2])
         IN  Frac(x[1] * (y[2] \div g) + y[1] * (x[2] \div g), (x[2] \div g) * y[2])

Neg(x) == <<-x[1], x[2]>>
Sub(x, y) == Add(x, Neg(y))

\* IEEE multiplication
Mul(x, y) ==
    IF IsNaN(x) \/ IsNaN(y) THEN NaN
    ELSE IF IsInf(x) \/ IsInf(y)
         THEN (IF Sgn(x) * Sgn(y) = 0 THEN NaN ELSE <<Sgn(x) * Sgn(y), 0>>)
    ELSE LET g1 == Gcd(Abs(x[1]), y[2])
             g2 == Gcd(Abs(y[1]), x[2])
         IN  Frac((x[1] \div g1) * (y[1] \div g2), (x[2] \div g2) * (y[2] \div g1))

\* IEEE division as numpy does it (no exception; the zeros here are +0)
Div(x, y) ==
    IF IsNaN(x) \/ IsNaN(y) THEN NaN
    ELSE IF IsInf(x) THEN (IF IsInf(y) THEN NaN
                           ELSE <<Sgn(x) * (IF Sgn(y) < 0 THEN -1 ELSE 1), 0>>)
    ELSE IF IsInf(y) THEN Ent(0)
    ELSE IF y[1] = 0 THEN (IF x[1] = 0 THEN NaN ELSE <<Sgn(x), 0>>)
    ELSE Mul(x, Frac(y[2], y[1]))

\* x < y, false when either is NaN
Lt(x, y) ==
    IF IsNaN(x) \/ IsNaN(y) THEN FALSE
    ELSE IF IsInf(x) \/ IsInf(y)
         THEN (IF IsInf(x) /\ IsInf(y) THEN x[1] < y[1]
               ELSE IF IsInf(x) THEN x[1] < 0
               ELSE y[1] > 0)
    ELSE x[1] * y[2] < y[1] * x[2]

\* x <= y, false when either is NaN
Le(x, y) == ~IsNaN(x) /\ ~IsNaN(y) /\ ~Lt(y, x)

\* x == y of IEEE: NaN equals nothing
Eq(x, y) == ~IsNaN(x) /\ ~IsNaN(y) /\ x = y

----------------------------------------------------------------------------
(* Program data *)

\* st.cache_data(ttl=3600)
ttl == 3600

\* tickers of one category of activos_disponibles
Activos == <<"GGAL.BA", "YPF", "GLOB">>

\* the options the multiselect offers in the render-pass specification
Opciones == <<"GGAL.BA", "YPF">>

\* periodos_dias: the preset periods, in days
periodos_dias ==
    [p \in {"1 mes", "3 meses", "6 meses", "1 año", "2 años", "5 años"} |->
        CASE p = "1 mes" -> 30
          [] p = "3 meses" -> 90
          [] p = "6 meses" -> 180
          [] p = "1 año" -> 365
          [] p = "2 años" -> 730
          [] OTHER -> 1825]

SegundosDia == 24 * 60 * 60

\* the dates a provider answer can cover
Fechas == 1..MaxFecha

Range(s) == {s[i] : i \in 1..Len(s)}

\* the sequences of distinct options a multiselect can return
Selecciones ==
    {s \in UNION {[1..n -> Range(Activos)] : n \in 0..Len(Activos)} :
        \A i, j \in 1..Len(s) : i # j => s[i] # s[j]}

----------------------------------------------------------------------------
(* DataFrame: index (set of dates, kept ascending), columns (in insertion   *)
(* order) and one value per column and date                                *)

DataFrameVacio == [index |-> {}, columns |-> <<>>, val |-> <<>>]

\* an emptiness test that looks at the columns only
EmptySoloColumnas(df) == df.columns = <<>>

\* DataFrame.empty: any axis of length 0
Empty(df) == df.columns = <<>> \/ df.index = {}

\* df[ticker] = serie  (serie: a function from its own dates to values).
\* A frame without rows takes the series' index; otherwise the series is
\* aligned to the frame's index, NaN where the series has no such date.
SetItem(df, ticker, serie) ==
    LET ix == IF df.index = {} THEN DOMAIN serie ELSE df.index
        cols == IF ticker \in Range(df.columns) THEN df.columns
                ELSE Append(df.columns, ticker)
    IN  [index |-> ix,
         columns |-> cols,
         val |-> [t \in Range(cols) |->
                    IF t = ticker
                    THEN [d \in ix |-> IF d \in DOMAIN serie THEN serie[d] ELSE NaN]
                    ELSE [d \in ix |-> IF d \in df.index THEN df.val[t][d] ELSE NaN]]]

\* a dropna that keeps a row unless all of its values are missing (how="all")
DropNaAll(df) ==
    LET ix == {d \in df.index : \E t \in Range(df.columns) : ~IsNaN(df.val[t][d])}
    IN  [index |-> ix,
         columns |-> df.columns,
         val |-> [t \in Range(df.columns) |-> [d \in ix |-> df.val[t][d]]]]

\* df.dropna(): keep the rows without any NaN
DropNa(df) ==
    LET ix == {d \in df.index : \A t \in Range(df.columns) : ~IsNaN(df.val[t][d])}
    IN  [index |-> ix,
         columns |-> df.columns,
         val |-> [t \in Range(df.columns) |-> [d \in ix |-> df.val[t][d]]]]

----------------------------------------------------------------------------
(* The market-data provider: what one yf.download call can do *)

Fallo(tipo) == [tipo |-> tipo, close |-> <<>>]

\* a non-empty answer with a Close column over the dates D
Series(D, V) == {[tipo |-> "ok", close |-> f] : f \in [D -> V]}

\* answers drawn in the download specification: the three failures and every
\* Close series over a non-empty set of dates, each value a price or NaN
Respuestas ==
    {Fallo("excepcion"), Fallo("vacio"), Fallo("sinClose")}
    \cup UNION {Series(D, {NaN, Ent(100), Ent(110)}) : D \in (SUBSET Fechas) \ {{}}}

\* answers drawn in the render-pass specification
RespuestasPase ==
    {Fallo("excepcion"),
     [tipo |-> "ok", close |-> <<Ent(100), Ent(110), Ent(121)>>],
     [tipo |-> "ok", close |-> <<NaN, NaN, NaN>>]}

----------------------------------------------------------------------------
(* descargar_datos *)

\* an iteration that records no warning for an empty answer
IteracionSinAviso(df, errs, ticker, r) ==
    IF r.tipo = "excepcion"
    THEN [datos |-> df, errores |-> Append(errs, <<ticker, "excepcion">>)]
    ELSE IF r.tipo = "vacio"
    THEN [datos |-> df, errores |-> errs]
    ELSE IF r.tipo = "sinClose"
    THEN [datos |-> df, errores |-> Append(errs, <<ticker, "Formato inesperado">>)]
    ELSE [datos |-> SetItem(df, ticker, r.close), errores |-> errs]

\* one iteration of the loop: the answer r for ticker is either stored as a
\* column or recorded as a warning
Iteracion(df, errs, ticker, r) ==
    IF r.tipo = "excepcion"
    THEN [datos |-> df, errores |-> Append(errs, <<ticker, "excepcion">>)]
    ELSE IF r.tipo = "vacio"
    THEN [datos |-> df, errores |-> Append(errs, <<ticker, "Sin datos disponibles">>)]
    ELSE IF r.tipo = "sinClose"
    THEN [datos |-> df, errores |-> Append(errs, <<ticker, "Formato inesperado">>)]
    ELSE [datos |-> SetItem(df, ticker, r.close), errores |-> errs]

\* the value returned
Devolver(df) == DropNa(df)

\* the cache key: the hashed arguments
Clave(tickers, inicio, fin) == [tickers |-> tickers, inicio |-> inicio, fin |-> fin]

\* an entry is served while its age is below the time to live
Vigente(e, t) == t - e.t < ttl

Acierto(c, k, t) == \E e \in c : e.clave = k /\ Vigente(e, t)

Cacheado(c, k, t) == (CHOOSE e \in c : e.clave = k /\ Vigente(e, t)).valor

Guardar(c, k, t, v) ==
    {e \in c : e.clave # k /\ Vigente(e, t)} \cup {[clave |-> k, t |-> t, valor |-> v]}

----------------------------------------------------------------------------
(* Big naturals, for the products behind the rounded square roots:        *)
(* little-endian sequences of base-10000 digits, <<>> is 0                 *)

Base == 10 ^ 4

RECURSIVE BN(_)
BN(n) == IF n = 0 THEN <<>> ELSE <<n % Base>> \o BN(n \div Base)

RECURSIVE BAddC(_, _, _)
BAddC(a, b, c) ==
    IF a = <<>> /\ b = <<>> THEN BN(c)
    ELSE LET da == IF a = <<>> THEN 0 ELSE a[1]
             db == IF b = <<>> THEN 0 ELSE b[1]
             t == da + db + c
         IN  <<t % Base>> \o BAddC(IF a = <<>> THEN a ELSE Tail(a),
                                   IF b = <<>> THEN b ELSE Tail(b), t \div Base)

BAdd(a, b) == BAddC(a, b, 0)

\* a times the digit m, plus the carry c
RECURSIVE BMulS(_, _, _)
BMulS(a, m, c) ==
    IF a = <<>> THEN BN(c)
    ELSE LET t == a[1] * m + c IN <<t % Base>> \o BMulS(Tail(a), m, t \div Base)

BShift(a) == IF a = <<>> THEN a ELSE <<0>> \o a

RECURSIVE BMul(_, _)
BMul(a, b) ==
    IF a = <<>> \/ b = <<>> THEN <<>>
    ELSE BAdd(BMulS(a, b[1], 0), BShift(BMul(a, Tail(b))))

RECURSIVE BLtFrom(_, _, _)
BLtFrom(a, b, i) ==
    IF i = 0 THEN FALSE
    ELSE IF a[i] # b[i] THEN a[i] < b[i]
    ELSE BLtFrom(a, b, i - 1)

BLt(a, b) == IF Len(a) # Len(b) THEN Len(a) < Len(b) ELSE BLtFrom(a, b, Len(a))
BLe(a, b) == ~BLt(b, a)

\* drop the leading zero digits
RECURSIVE BNorm(_)
BNorm(a) ==
    IF a = <<>> THEN a
    ELSE IF a[Len(a)] = 0 THEN BNorm(SubSeq(a, 1, Len(a) - 1))
    ELSE a

\* a - b - c for a >= b + c, digit by digit
RECURSIVE BSubC(_, _, _)
BSubC(a, b, c) ==
    IF a = <<>> THEN <<>>
    ELSE LET db == IF b = <<>> THEN 0 ELSE b[1]
             t == a[1] - db - c
         IN  <<(t + Base) % Base>>
             \o BSubC(Tail(a), IF b = <<>> THEN b ELSE Tail(b), IF t < 0 THEN 1 ELSE 0)

BSub(a, b) == BNorm(BSubC(a, b, 0))

BSq(n) == BMul(BN(n), BN(n))

\* u*u*q <= p
SqLe(u, p, q) == BLe(BMul(BSq(u), q), p)

RECURSIVE SqUp(_, _, _)
SqUp(h, p, q) == IF SqLe(h, p, q) THEN SqUp(2 * h, p, q) ELSE h

RECURSIVE SqBis(_, _, _, _)
SqBis(lo, hi, p, q) ==
    IF hi - lo <= 1 THEN lo
    ELSE LET mid == (lo + hi) \div 2
         IN  IF SqLe(mid, p, q) THEN SqBis(mid, hi, p, q) ELSE SqBis(lo, mid, p, q)

\* the largest s with s*s <= p/q
FloorSqrt(p, q) == LET h == SqUp(1, p, q) IN SqBis(h \div 2, h, p, q)

\* sqrt(p/q) rounded to the nearest integer, halves to the even one
RoundSqrt(p, q) ==
    LET s == FloorSqrt(p, q)
        l == BMul(BSq(2 * s + 1), q)
        r == BMulS(p, 4, 0)
    IN  IF BLt(l, r) THEN s + 1
        ELSE IF l = r THEN (IF s % 2 = 0 THEN s ELSE s + 1)
        ELSE s

\* x rounded to `dec` = 2 decimals, halves to the even one (numpy's round)
Round2(x) ==
    IF ~IsFin(x) THEN x
    ELSE LET t == Abs(x[1]) * 100
             q == t \div x[2]
             r == t % x[2]
             k == IF 2 * r < x[2] THEN q
                  ELSE IF 2 * r > x[2] THEN q + 1
                  ELSE IF q % 2 = 0 THEN q ELSE q + 1
         IN  Frac(Sgn(x) * k, 100)

\* k hundredths
Centesimas(k) == Frac(k, 100)

----------------------------------------------------------------------------
(* Series and their statistics.  A series is a sequence of extended        *)
(* numbers; the statistics are the exact real ones (in the program they    *)
(* are computed on doubles).                                               *)

Nada == <<>>

RECURSIVE Ordenar(_)
Ordenar(S) ==
    IF S = {} THEN <<>>
    ELSE LET m == CHOOSE x \in S : \A y \in S : x <= y
         IN  <<m>> \o Ordenar(S \ {m})

\* the column t of a frame, rows in index order
Col(df, t) == LET f == Ordenar(df.index) IN [i \in 1..Len(f) |-> df.val[t][f[i]]]

Finitos(R) == \A i \in 1..Len(R) : IsFin(R[i])

Mcm(a, b) == (a \div Gcd(a, b)) * b

RECURSIVE DenComun(_)
DenComun(R) == IF R = <<>> THEN 1 ELSE Mcm(Head(R)[2], DenComun(Tail(R)))

\* the finite series R as integers over the common denominator d
Enteros(R, d) == [i \in 1..Len(R) |-> R[i][1] * (d \div R[i][2])]

RECURSIVE SumaEnt(_)
SumaEnt(a) == IF a = <<>> THEN 0 ELSE Head(a) + SumaEnt(Tail(a))

RECURSIVE SumaIEEE(_)
SumaIEEE(R) == IF R = <<>> THEN Ent(0) ELSE Add(Head(R), SumaIEEE(Tail(R)))

\* Series.mean(): NaN for an empty series
Mean(R) ==
    IF Len(R) = 0 THEN NaN
    ELSE IF Finitos(R)
    THEN LET d == DenComun(R) IN Frac(SumaEnt(Enteros(R, d)), Len(R) * d)
    ELSE Div(SumaIEEE(R), Ent(Len(R)))

\* sum over the pairs i < j of (a[i]-a[j])*(b[i]-b[j]), the positive terms
\* (sg = 1) or the negated negative terms (sg = -1); the sum over all pairs
\* is n*sum(a*b) - sum(a)*sum(b)
RECURSIVE SumaPares(_, _, _, _, _)
SumaPares(a, b, i, j, sg) ==
    IF i >= Len(a) THEN <<>>
    ELSE IF j > Len(a) THEN SumaPares(a, b, i + 1, i + 2, sg)
    ELSE LET x == a[i] - a[j]
             y == b[i] - b[j]
             pos == (x >= 0) = (y >= 0)
         IN  IF (sg = 1) = pos
             THEN BAdd(BMul(BN(Abs(x)), BN(Abs(y))), SumaPares(a, b, i, j + 1, sg))
             ELSE SumaPares(a, b, i, j + 1, sg)

\* n*(n-1)*d*d times the sample variance (ddof = 1) of the integers a over d
Desvios(a) == SumaPares(a, a, 1, 2, 1)

\* Series.std() is defined for two or more finite values
StdDefinida(R) == Len(R) >= 2 /\ Finitos(R)

GradosLibertad(R) == Len(R) * (Len(R) - 1)

\* trading days of a year
DiasAnio == 252

----------------------------------------------------------------------------
(* calcular_metricas *)

\* one entry of pct_change: cur / prev - 1
PctCambio(prev, cur) == Sub(Div(cur, prev), Ent(1))

\* datos.pct_change(): NaN in the first row
PctChange(df) ==
    LET f == Ordenar(df.index)
        pos(d) == CHOOSE i \in 1..Len(f) : f[i] = d
    IN  [index |-> df.index,
         columns |-> df.columns,
         val |-> [t \in Range(df.columns) |->
                    [d \in df.index |->
                        IF pos(d) = 1 THEN NaN
                        ELSE PctCambio(df.val[t][f[pos(d) - 1]], df.val[t][d])]]]

\* retornos = datos.pct_change().dropna()
Retornos(df) == DropNa(PctChange(df))

\* ((last / first) - 1) * 100
Rendimiento(P) == Mul(Sub(Div(P[Len(P)], P[1]), Ent(1)), Ent(100))

\* retornos.std() * 100, rounded: hundredths of sqrt(10^8 * var)
VolatilidadDiaria(R) ==
    IF ~StdDefinida(R) THEN NaN
    ELSE LET d == DenComun(R)
             w == Desvios(Enteros(R, d))
         IN  Centesimas(RoundSqrt(BMul(BSq(Base), w),
                                  BMul(BN(GradosLibertad(R)), BSq(d))))

\* an annualisation by calendar days
VolatilidadAnualizada365(R) ==
    IF ~StdDefinida(R) THEN NaN
    ELSE LET d == DenComun(R)
             w == Desvios(Enteros(R, d))
         IN  Centesimas(RoundSqrt(BMul(BMulS(BSq(Base), 365, 0), w),
                                  BMul(BN(GradosLibertad(R)), BSq(d))))

\* retornos.std() * sqrt(252) * 100, rounded
VolatilidadAnualizada(R) ==
    IF ~StdDefinida(R) THEN NaN
    ELSE LET d == DenComun(R)
             w == Desvios(Enteros(R, d))
         IN  Centesimas(RoundSqrt(BMul(BMulS(BSq(Base), DiasAnio, 0), w),
                                  BMul(BN(GradosLibertad(R)), BSq(d))))

\* a downside subset that keeps the zero returns
NoPositivos(R) == SelectSeq(R, LAMBDA x : Le(x, Ent(0)))

\* retornos[retornos < 0]: the negative returns of the series
Negativos(R) == SelectSeq(R, LAMBDA x : Lt(x, Ent(0)))

\* (mean(R) / std(X)) * sqrt(252), rounded.  With s the sum of the integers
\* of R over d, and w / (gl*dx*dx) the variance of X, the quotient
\* mean/std is s * dx * sqrt(gl) / (n * d * sqrt(w)); a zero std divides
\* as IEEE does
Ratio(R, X) ==
    IF ~StdDefinida(X) \/ IsNaN(Mean(R)) THEN NaN
    ELSE LET dx == DenComun(X)
             w == Desvios(Enteros(X, dx))
         IN  IF w = <<>> THEN Div(Mean(R), Ent(0))
             ELSE IF ~IsFin(Mean(R)) THEN Mean(R)
             ELSE LET d == DenComun(R)
                      s == SumaEnt(Enteros(R, d))
                  IN  Centesimas((IF s < 0 THEN -1 ELSE 1) *
                        RoundSqrt(BMul(BMulS(BN(Base), DiasAnio, 0),
                                       BMul(BMul(BSq(Abs(s)), BSq(dx)),
                                            BN(GradosLibertad(X)))),
                                  BMul(BMul(BSq(Len(R)), BSq(d)), w)))

\* (retornos.mean() / retornos.std()) * sqrt(252), rounded
Sharpe(R) == Ratio(R, R)

\* (retornos.mean() / retornos_negativos.std()) * sqrt(252), rounded
Sortino(R) == Ratio(R, Negativos(R))

\* (1 + retornos).cumprod()
RECURSIVE CumProd(_, _)
CumProd(R, acc) ==
    IF R = <<>> THEN <<>>
    ELSE LET c == Mul(acc, Add(Ent(1), Head(R))) IN <<c>> \o CumProd(Tail(R), c)

Cumulative(R) == CumProd(R, Ent(1))

\* the larger of two values, NaN skipped
MaxSkip(x, y) == IF IsNaN(x) THEN y ELSE IF IsNaN(y) THEN x ELSE IF Lt(x, y) THEN y ELSE x
MinSkip(x, y) == IF IsNaN(x) THEN y ELSE IF IsNaN(y) THEN x ELSE IF Lt(y, x) THEN y ELSE x

\* the maximum of the whole path at every row
RECURSIVE MaxTotal(_)
MaxTotal(C) == IF C = <<>> THEN NaN ELSE MaxSkip(Head(C), MaxTotal(Tail(C)))

RunningMaxGlobal(C) == [i \in 1..Len(C) |-> MaxTotal(C)]

\* cumulative.expanding().max()
RunningMax(C) == [i \in 1..Len(C) |-> MaxTotal(SubSeq(C, 1, i))]

\* (cumulative - running_max) / running_max
Drawdown(C) ==
    LET m == RunningMax(C) IN [i \in 1..Len(C) |-> Div(Sub(C[i], m[i]), m[i])]

\* Series.min(): NaN skipped, NaN when nothing is left
RECURSIVE MinSerie(_)
MinSerie(X) == IF X = <<>> THEN NaN ELSE MinSkip(Head(X), MinSerie(Tail(X)))

\* drawdown.min() * 100
MaxDrawdown(R) == Mul(MinSerie(Drawdown(Cumulative(R))), Ent(100))

\* the metrics row of one instrument, as returned (metricas.round(2))
Fila(P, R) ==
    [precio_inicial |-> Round2(P[1]),
     precio_final |-> Round2(P[Len(P)]),
     rendimiento |-> Round2(Rendimiento(P)),
     vol_diaria |-> VolatilidadDiaria(R),
     vol_anual |-> VolatilidadAnualizada(R),
     sharpe |-> Sharpe(R),
     sortino |-> Sortino(R),
     max_drawdown |-> Round2(MaxDrawdown(R))]

\* calcular_metricas(datos)[0]: one row per instrument
Metricas(df) ==
    LET ret == Retornos(df)
    IN  [t \in Range(df.columns) |-> Fila(Col(df, t), Col(ret, t))]

----------------------------------------------------------------------------
(* retornos.corr(): Pearson correlation, pairwise.  An entry is            *)
(* <<sign, c*c, wx*wy>> for the correlation sign * sqrt(c*c / (wx*wy)) and *)
(* CorrNaN when it is undefined.  Only the rows where both series are     *)
(* finite enter an entry (min_periods = 1)                                 *)

CorrNaN == <<0, <<>>, <<>>>>

\* the observations of X at the rows where both X and Y are finite
Comunes(X, Y) ==
    LET RECURSIVE Sel(_)
        Sel(i) == IF i > Len(X) THEN <<>>
                  ELSE IF IsFin(X[i]) /\ IsFin(Y[i]) THEN <<X[i]>> \o Sel(i + 1)
                  ELSE Sel(i + 1)
    IN  Sel(1)

CorrPar(X, Y) ==
    LET x == Comunes(X, Y)
        y == Comunes(Y, X)
    IN  IF Len(x) < 1 THEN CorrNaN
        ELSE LET a == Enteros(x, DenComun(x))
                 b == Enteros(y, DenComun(y))
                 wx == Desvios(a)
                 wy == Desvios(b)
                 cp == SumaPares(a, b, 1, 2, 1)
                 cn == SumaPares(a, b, 1, 2, -1)
                 c == IF BLt(cp, cn) THEN BSub(cn, cp) ELSE BSub(cp, cn)
             IN  IF wx = <<>> \/ wy = <<>> THEN CorrNaN
                 ELSE <<IF BLt(cp, cn) THEN -1 ELSE IF cp = cn THEN 0 ELSE 1,
                        BMul(c, c), BMul(wx, wy)>>

\* a matrix whose lower triangle is never filled in
CorrSinEspejo(df) ==
    LET c == df.columns
    IN  [i \in 1..Len(c) |-> [j \in 1..Len(c) |->
            IF i <= j THEN CorrPar(Col(df, c[i]), Col(df, c[j])) ELSE CorrNaN]]

\* the matrix: computed for i <= j and mirrored
Corr(df) ==
    LET c == df.columns
    IN  [i \in 1..Len(c) |-> [j \in 1..Len(c) |->
            IF i <= j THEN CorrPar(Col(df, c[i]), Col(df, c[j]))
            ELSE CorrPar(Col(df, c[j]), Col(df, c[i]))]]

\* the entry is the number 1
EsUno(e) == e[1] = 1 /\ e[2] = e[3]

\* Series.idxmax() / idxmin() find nothing when every value is NaN, and the
\* lookup of the result then raises
SinIndice(m, campo) == \A t \in DOMAIN m : IsNaN(m[t][campo])

----------------------------------------------------------------------------
(* The render pass *)

Hoy(t) == t \div SegundosDia

\* the widgets' defaults on first load
DesdeDefecto(t) == Hoy(t) - 365
HastaDefecto(t) == Hoy(t)

\* what the user selected, as far as the fetch depends on it
Config == <<activos_seleccionados, tipo_periodo, periodo, desde, hasta>>

SinPrevia == [hay |-> FALSE, config |-> <<>>, t |-> 0, pasada |-> 0]

\* the variables a pass recomputes from scratch
NuevaPasada ==
    /\ pc' = "sidebar"
    /\ idx' = 0
    /\ datos' = DataFrameVacio
    /\ errores' = <<>>
    /\ respuestas' = <<>>
    /\ consultas' = <<>>
    /\ salida' = "ninguna"
    /\ metricas' = Nada
    /\ retornos' = Nada
    /\ correlaciones' = Nada
    /\ fecha_inicio' = Nada
    /\ fecha_fin' = Nada

\* the end of a pass: remember it if it contacted the provider
FinPasada(como) ==
    /\ pc' = "idle"
    /\ salida' = como
    /\ previa' = IF consultas # <<>> /\ ~previa.hay
                 THEN [hay |-> TRUE, config |-> Config, t |-> now, pasada |-> pasadas]
                 ELSE previa
    /\ reinicio' = reinicio

Saltos == {1, ttl}

\* any interaction re-runs the script, later
Interaccion(delta) ==
    /\ pc = "idle"
    /\ pasadas < MaxPasadas
    /\ pasadas' = pasadas + 1
    /\ now' = now + delta
    /\ reinicio' = FALSE
    /\ NuevaPasada
    /\ UNCHANGED cache

\* the selection after one click on option t of the multiselect
Alternar(sel, t) ==
    IF t \in Range(sel) THEN SelectSeq(sel, LAMBDA x : x # t) ELSE Append(sel, t)

\* the multiselect changes: one option is added or removed
Seleccionar(t, delta) ==
    /\ Interaccion(delta)
    /\ activos_seleccionados' = Alternar(activos_seleccionados, t)
    /\ limpiar' = FALSE
    /\ previa' = SinPrevia
    /\ UNCHANGED <<tipo_periodo, periodo, desde, hasta>>

\* the radio changes; the widgets of the branch not taken lose their state
ElegirTipo(delta) ==
    /\ Interaccion(delta)
    /\ tipo_periodo' = IF tipo_periodo = "Predefinido" THEN "Personalizado"
                       ELSE "Predefinido"
    /\ periodo' = "1 mes"
    /\ desde' = DesdeDefecto(now')
    /\ hasta' = HastaDefecto(now')
    /\ limpiar' = FALSE
    /\ previa' = SinPrevia
    /\ UNCHANGED activos_seleccionados

PeriodosUsuario == {"1 mes", "1 año"}

\* the preset period changes
ElegirPeriodo(p, delta) ==
    /\ Interaccion(delta)
    /\ tipo_periodo = "Predefinido"
    /\ p # periodo
    /\ periodo' = p
    /\ limpiar' = FALSE
    /\ previa' = SinPrevia
    /\ UNCHANGED <<activos_seleccionados, tipo_periodo, desde, hasta>>

\* the "Desde" date changes
ElegirDesde(d, delta) ==
    /\ Interaccion(delta)
    /\ tipo_periodo = "Personalizado"
    /\ d # desde
    /\ desde' = d
    /\ limpiar' = FALSE
    /\ previa' = SinPrevia
    /\ UNCHANGED <<activos_seleccionados, tipo_periodo, periodo, hasta>>

\* the "Actualizar Dashboard" button: nothing but the re-run
Actualizar(delta) ==
    /\ Interaccion(delta)
    /\ limpiar' = FALSE
    /\ UNCHANGED <<activos_seleccionados, tipo_periodo, periodo, desde, hasta, previa>>

\* the "Limpiar Cache" button is pressed
PulsarLimpiar(delta) ==
    /\ Interaccion(delta)
    /\ limpiar' = TRUE
    /\ UNCHANGED <<activos_seleccionados, tipo_periodo, periodo, desde, hasta, previa>>

\* the date range of the pass
FechaInicio ==
    IF tipo_periodo = "Predefinido"
    THEN <<"datetime", now - periodos_dias[periodo] * SegundosDia>>
    ELSE <<"date", desde>>

FechaFin ==
    IF tipo_periodo = "Predefinido" THEN <<"datetime", now>> ELSE <<"date", hasta>>

\* a sidebar whose button restarts the script and leaves the cache as it is
SidebarSinVaciar ==
    /\ pc = "sidebar"
    /\ IF limpiar
       THEN /\ cache' = cache
            /\ limpiar' = FALSE
            /\ now' = now + 1
            /\ pasadas' = pasadas + 1
            /\ previa' = SinPrevia
            /\ reinicio' = TRUE
            /\ NuevaPasada
       ELSE /\ fecha_inicio' = FechaInicio
            /\ fecha_fin' = FechaFin
            /\ pc' = "validar"
            /\ UNCHANGED <<cache, limpiar, now, pasadas, previa, reinicio, idx, datos, errores,
                           respuestas, consultas, salida, metricas, retornos,
                           correlaciones>>
    /\ UNCHANGED <<activos_seleccionados, tipo_periodo, periodo, desde, hasta>>

\* the sidebar: widgets, date range, and the cache-clear button, which
\* empties the cache and restarts the script
Sidebar ==
    /\ pc = "sidebar"
    /\ IF limpiar
       THEN /\ cache' = {}
            /\ limpiar' = FALSE
            /\ now' = now + 1
            /\ pasadas' = pasadas + 1
            /\ previa' = SinPrevia
            /\ reinicio' = TRUE
            /\ NuevaPasada
       ELSE /\ fecha_inicio' = FechaInicio
            /\ fecha_fin' = FechaFin
            /\ pc' = "validar"
            /\ UNCHANGED <<cache, limpiar, now, pasadas, previa, reinicio, idx, datos, errores,
                           respuestas, consultas, salida, metricas, retornos,
                           correlaciones>>
    /\ UNCHANGED <<activos_seleccionados, tipo_periodo, periodo, desde, hasta>>

\* a test that an empty list never meets ("is None")
SinSeleccionNone(sel) == FALSE

\* "if not activos_seleccionados": prompt and stop
SinSeleccion(sel) == sel = <<>>

Validar ==
    /\ pc = "validar"
    /\ IF SinSeleccion(activos_seleccionados)
       THEN FinPasada("aviso")
       ELSE pc' = "descargar" /\ UNCHANGED <<salida, previa, reinicio>>
    /\ UNCHANGED <<now, activos_seleccionados, tipo_periodo, periodo, desde, hasta,
                   limpiar, cache, fecha_inicio, fecha_fin, idx, datos, errores,
                   respuestas, consultas, metricas, retornos, correlaciones, pasadas>>

\* the call of descargar_datos: served from the cache, or the body starts
Descargar ==
    /\ pc = "descargar"
    /\ LET k == Clave(activos_seleccionados, fecha_inicio, fecha_fin)
       IN  IF Acierto(cache, k, now)
           THEN datos' = Cacheado(cache, k, now) /\ pc' = "comprobar"
           ELSE datos' = DataFrameVacio /\ pc' = "fetch"
    /\ errores' = <<>>
    /\ idx' = 0
    /\ UNCHANGED <<now, activos_seleccionados, tipo_periodo, periodo, desde, hasta,
                   limpiar, cache, fecha_inicio, fecha_fin, respuestas, consultas,
                   salida, metricas, retornos, correlaciones, previa, reinicio, pasadas>>

\* an iteration that asks again for a ticker whose fetch failed
FetchConReintento(R) ==
    /\ pc = "fetch"
    /\ idx < Len(activos_seleccionados)
    /\ \E r \in R :
        LET ticker == activos_seleccionados[idx + 1]
            paso == Iteracion(datos, errores, ticker, r)
        IN  /\ datos' = paso.datos
            /\ errores' = paso.errores
            /\ consultas' = Append(consultas, ticker)
            /\ respuestas' = [t \in DOMAIN respuestas \cup {ticker} |->
                                IF t = ticker THEN r ELSE respuestas[t]]
            /\ idx' = IF r.tipo = "ok" \/ Len(consultas) >= Len(activos_seleccionados)
                      THEN idx + 1 ELSE idx
    /\ UNCHANGED <<now, activos_seleccionados, tipo_periodo, periodo, desde, hasta,
                   limpiar, cache, pc, fecha_inicio, fecha_fin, salida, metricas,
                   retornos, correlaciones, previa, reinicio, pasadas>>

\* one iteration: yf.download for tickers[idx], with the answer r
Fetch(R) ==
    /\ pc = "fetch"
    /\ idx < Len(activos_seleccionados)
    /\ \E r \in R :
        LET ticker == activos_seleccionados[idx + 1]
            paso == Iteracion(datos, errores, ticker, r)
        IN  /\ datos' = paso.datos
            /\ errores' = paso.errores
            /\ consultas' = Append(consultas, ticker)
            /\ respuestas' = [t \in DOMAIN respuestas \cup {ticker} |->
                                IF t = ticker THEN r ELSE respuestas[t]]
    /\ idx' = idx + 1
    /\ UNCHANGED <<now, activos_seleccionados, tipo_periodo, periodo, desde, hasta,
                   limpiar, cache, pc, fecha_inicio, fecha_fin, salida, metricas,
                   retornos, correlaciones, previa, reinicio, pasadas>>

\* after the loop: the result is returned and stored under the key
FinDescarga ==
    /\ pc = "fetch"
    /\ idx = Len(activos_seleccionados)
    /\ datos' = Devolver(datos)
    /\ cache' = Guardar(cache, Clave(activos_seleccionados, fecha_inicio, fecha_fin),
                        now, Devolver(datos))
    /\ pc' = "comprobar"
    /\ UNCHANGED <<now, activos_seleccionados, tipo_periodo, periodo, desde, hasta,
                   limpiar, fecha_inicio, fecha_fin, idx, errores, respuestas,
                   consultas, salida, metricas, retornos, correlaciones, previa, reinicio,
                   pasadas>>

\* "if datos.empty": error and stop
Comprobar ==
    /\ pc = "comprobar"
    /\ IF Empty(datos)
       THEN FinPasada("error")
       ELSE pc' = "metricas" /\ UNCHANGED <<salida, previa, reinicio>>
    /\ UNCHANGED <<now, activos_seleccionados, tipo_periodo, periodo, desde, hasta,
                   limpiar, cache, fecha_inicio, fecha_fin, idx, datos, errores,
                   respuestas, consultas, metricas, retornos, correlaciones, pasadas>>

\* metricas, retornos = calcular_metricas(datos)
CalcularMetricas ==
    /\ pc = "metricas"
    /\ metricas' = Metricas(datos)
    /\ retornos' = Retornos(datos)
    /\ pc' = "tarjetas"
    /\ UNCHANGED <<now, activos_seleccionados, tipo_periodo, periodo, desde, hasta,
                   limpiar, cache, fecha_inicio, fecha_fin, idx, datos, errores,
                   respuestas, consultas, salida, correlaciones, previa, reinicio, pasadas>>

\* the summary cards: best and worst performer, best Sharpe
Tarjetas ==
    /\ pc = "tarjetas"
    /\ IF SinIndice(metricas, "rendimiento") \/ SinIndice(metricas, "sharpe")
       THEN FinPasada("excepcion")
       ELSE pc' = "pestanas" /\ UNCHANGED <<salida, previa, reinicio>>
    /\ UNCHANGED <<now, activos_seleccionados, tipo_periodo, periodo, desde, hasta,
                   limpiar, cache, fecha_inicio, fecha_fin, idx, datos, errores,
                   respuestas, consultas, metricas, retornos, correlaciones, pasadas>>

\* the tabs, down to the correlation matrix, and the rest of the page
Pestanas ==
    /\ pc = "pestanas"
    /\ correlaciones' = Corr(retornos)
    /\ FinPasada("ok")
    /\ UNCHANGED <<now, activos_seleccionados, tipo_periodo, periodo, desde, hasta,
                   limpiar, cache, fecha_inicio, fecha_fin, idx, datos, errores,
                   respuestas, consultas, metricas, retornos, pasadas>>

----------------------------------------------------------------------------
(* Specifications *)

\* the first load of the page
Init ==
    /\ now = 0
    /\ activos_seleccionados = Opciones
    /\ tipo_periodo = "Predefinido"
    /\ periodo = "1 mes"
    /\ desde = DesdeDefecto(0)
    /\ hasta = HastaDefecto(0)
    /\ limpiar = FALSE
    /\ cache = {}
    /\ pc = "sidebar"
    /\ fecha_inicio = Nada
    /\ fecha_fin = Nada
    /\ idx = 0
    /\ datos = DataFrameVacio
    /\ errores = <<>>
    /\ respuestas = <<>>
    /\ consultas = <<>>
    /\ salida = "ninguna"
    /\ metricas = Nada
    /\ retornos = Nada
    /\ correlaciones = Nada
    /\ previa = SinPrevia
    /\ reinicio = FALSE
    /\ pasadas = 1

Next ==
    \/ \E t \in Range(Opciones), delta \in Saltos : Seleccionar(t, delta)
    \/ \E delta \in Saltos : ElegirTipo(delta)
    \/ \E p \in PeriodosUsuario, delta \in Saltos : ElegirPeriodo(p, delta)
    \/ \E d \in {DesdeDefecto(0), DesdeDefecto(0) + 335}, delta \in Saltos :
          ElegirDesde(d, delta)
    \/ \E delta \in Saltos : Actualizar(delta)
    \/ \E delta \in Saltos : PulsarLimpiar(delta)
    \/ Sidebar
    \/ Validar
    \/ Descargar
    \/ Fetch(RespuestasPase)
    \/ FinDescarga
    \/ Comprobar
    \/ CalcularMetricas
    \/ Tarjetas
    \/ Pestanas

Spec == Init /\ [][Next]_vars

\* one uncached call of descargar_datos, on any list of distinct tickers
InitDescarga ==
    /\ now = 0
    /\ activos_seleccionados \in Selecciones \ {<<>>}
    /\ tipo_periodo = "Predefinido"
    /\ periodo = "1 mes"
    /\ desde = DesdeDefecto(0)
    /\ hasta = HastaDefecto(0)
    /\ limpiar = FALSE
    /\ cache = {}
    /\ pc = "fetch"
    /\ fecha_inicio = <<"datetime", 0 - periodos_dias["1 mes"] * SegundosDia>>
    /\ fecha_fin = <<"datetime", 0>>
    /\ idx = 0
    /\ datos = DataFrameVacio
    /\ errores = <<>>
    /\ respuestas = <<>>
    /\ consultas = <<>>
    /\ salida = "ninguna"
    /\ metricas = Nada
    /\ retornos = Nada
    /\ correlaciones = Nada
    /\ previa = SinPrevia
    /\ reinicio = FALSE
    /\ pasadas = 1

NextDescarga ==
    \/ Fetch(Respuestas)
    \/ FinDescarga

SpecDescarga == InitDescarga /\ [][NextDescarga]_vars

\* price tables handed to calcular_metricas: one or two columns of up to
\* MaxFilas rows, the prices of a table taken from one family
Familias ==
    {{Ent(100), Ent(110), Ent(121)},
     {Ent(0), Ent(1), Ent(2)},
     {Ent(20000), Ent(20001)}}

Tablas ==
    UNION {{[index |-> 1..n, columns |-> c, val |-> v] :
                v \in [Range(c) -> [1..n -> F]]} :
           n \in 1..MaxFilas, F \in Familias,
           c \in {<<Opciones[1]>>, <<Opciones[2]>>, Opciones}}

\* the pass from the call of calcular_metricas on, for any complete price
\* table (no NaN, at least one row and one column)
InitMetricas ==
    /\ now = 0
    /\ \E df \in Tablas :
        /\ datos = df
        /\ activos_seleccionados = df.columns
    /\ tipo_periodo = "Predefinido"
    /\ periodo = "1 mes"
    /\ desde = DesdeDefecto(0)
    /\ hasta = HastaDefecto(0)
    /\ limpiar = FALSE
    /\ cache = {}
    /\ pc = "metricas"
    /\ fecha_inicio = <<"datetime", 0 - periodos_dias["1 mes"] * SegundosDia>>
    /\ fecha_fin = <<"datetime", 0>>
    /\ idx = Len(activos_seleccionados)
    /\ errores = <<>>
    /\ respuestas = <<>>
    /\ consultas = <<>>
    /\ salida = "ninguna"
    /\ metricas = Nada
    /\ retornos = Nada
    /\ correlaciones = Nada
    /\ previa = SinPrevia
    /\ reinicio = FALSE
    /\ pasadas = 1

NextMetricas ==
    \/ CalcularMetricas
    \/ Tarjetas
    \/ Pestanas

SpecMetricas == InitMetricas /\ [][NextMetricas]_vars

----------------------------------------------------------------------------
(* Claims *)

\* calcular_metricas has returned in this pass
Calculado ==
    pc \in {"tarjetas", "pestanas"} \/ (pc = "idle" /\ salida \in {"ok", "excepcion"})

\* the tickers whose answer became a column
Exitosos == {t \in DOMAIN respuestas : respuestas[t].tipo = "ok"}

Avisos(t) == {i \in 1..Len(errores) : errores[i][1] = t}

\* C1: in a call of descargar_datos every ticker whose fetch raises, is empty
\* or lacks 'Close' is left out of the table and recorded as exactly one
\* warning, and the loop goes on: while the loop runs and when it has ended,
\* the columns are exactly the tickers that succeeded (in request order),
\* each failed ticker has one warning, each successful one none, and
\* columns + warnings = tickers processed (all of them at the end).
C1_ColumnasYAvisos ==
    /\ pc = "fetch" =>
        /\ Len(datos.columns) + Len(errores) = idx
        /\ DOMAIN respuestas = {activos_seleccionados[i] : i \in 1..idx}
    /\ pc \in {"fetch", "comprobar"} =>
        /\ datos.columns =
              SelectSeq(SubSeq(activos_seleccionados, 1, Len(consultas)),
                        LAMBDA t : t \in Exitosos)
        /\ \A t \in DOMAIN respuestas :
              Cardinality(Avisos(t)) = IF t \in Exitosos THEN 0 ELSE 1
    /\ pc = "comprobar" =>
        /\ consultas = activos_seleccionados
        /\ Len(datos.columns) + Len(errores) = Len(activos_seleccionados)

\* C1 witness: three tickers requested, the second one failed, and the call
\* returned two columns and one warning
C1_Witness ==
    /\ pc = "comprobar"
    /\ Len(activos_seleccionados) = 3
    /\ respuestas[activos_seleccionados[2]].tipo = "excepcion"
    /\ Len(datos.columns) = 2
    /\ Len(errores) = 1

\* this is a later pass of a streak of passes with this selection: the
\* first of them fetched less than ttl ago and the cache was not cleared
\* since
FetchReciente ==
    /\ previa.hay
    /\ previa.pasada < pasadas
    /\ previa.config = Config
    /\ now - previa.t < ttl

\* C2: with the ticker and period selection unchanged and less than the time
\* to live elapsed since the first fetch, no later pass contacts the
\* provider (in the preset-period mode as in the custom-date mode).
C2_SoloLaPrimeraConsulta == FetchReciente => consultas = <<>>

\* C3: a pass whose table has no column or no row shows the error and stops
\* before calcular_metricas; calcular_metricas only ever runs on a table
\* with at least one column and one row.
C3_MetricasSoloConDatos ==
    /\ (pc = "metricas" \/ Calculado) =>
          (datos.columns # <<>> /\ datos.index # {})
    /\ (pc = "idle" /\ activos_seleccionados # <<>>
        /\ (datos.columns = <<>> \/ datos.index = {})) =>
          (salida = "error" /\ metricas = Nada /\ retornos = Nada
           /\ correlaciones = Nada)

\* C3 witness: a pass that fetched a column but kept no row ended in the error
C3_Witness ==
    /\ pc = "idle"
    /\ salida = "error"
    /\ datos.columns # <<>>
    /\ datos.index = {}
    /\ consultas # <<>>

\* C4: a pass with nothing selected shows the prompt and stops at once:
\* descargar_datos is not called (no fetch, no cache entry) and no metrics
\* are computed.
C4_SinSeleccionSeDetiene ==
    /\ [](activos_seleccionados = <<>> =>
            /\ pc \in {"sidebar", "validar", "idle"}
            /\ consultas = <<>>
            /\ metricas = Nada
            /\ pc = "idle" => salida = "aviso")
    /\ [][(activos_seleccionados = <<>> /\ pc = "validar") =>
            (pc' = "idle" /\ cache' = cache)]_vars

\* C4 witness: a pass with nothing selected has stopped on the prompt
C4_Witness ==
    /\ activos_seleccionados = <<>>
    /\ pc = "idle"
    /\ salida = "aviso"

\* the dates on which every successful ticker has a price
FechasCompletas ==
    {d \in Fechas : \A t \in Exitosos :
        d \in DOMAIN respuestas[t].close /\ ~IsNaN(respuestas[t].close[d])}

\* C5: the table returned by descargar_datos has no missing value, holds the
\* fetched closes, and its rows are exactly the dates on which every
\* successful ticker has a non-missing close, whatever the request order.
C5_FilasCompletas ==
    (pc = "comprobar" /\ Exitosos # {}) =>
        /\ datos.index = FechasCompletas
        /\ \A t \in Range(datos.columns) : \A d \in datos.index :
              /\ ~IsNaN(datos.val[t][d])
              /\ datos.val[t][d] = respuestas[t].close[d]

\* C5 witness: the first successful series lacks a date that a later one
\* has, a value is missing somewhere, and a row still survives
C5_Witness ==
    /\ pc = "comprobar"
    /\ Len(datos.columns) >= 2
    /\ datos.index # {}
    /\ \E d \in DOMAIN respuestas[datos.columns[2]].close :
          d \notin DOMAIN respuestas[datos.columns[1]].close
    /\ \E t \in Exitosos : \E d \in DOMAIN respuestas[t].close :
          IsNaN(respuestas[t].close[d])

Filas(df) == Cardinality(df.index)

\* the returns of the instrument t, rows in date order
Ret(t) == Col(retornos, t)

\* C6: for a price table of two or more rows, the returns table of
\* calcular_metricas has exactly one row less, no missing value, and each
\* return is the relative change of the price from the previous row,
\* prices that are zero on consecutive days included.
C6_UnaFilaMenos ==
    (Calculado /\ Filas(datos) >= 2) =>
        /\ Filas(retornos) = Filas(datos) - 1
        /\ \A t \in Range(retornos.columns) : \A d \in retornos.index :
              /\ ~IsNaN(retornos.val[t][d])
              /\ retornos.val[t][d] = PctCambio(datos.val[t][d - 1], datos.val[t][d])

\* C6 witness: a price that is zero on two consecutive days, and a returns
\* table two rows shorter than the price table
C6_Witness ==
    /\ Calculado
    /\ \E t \in Range(datos.columns) : \E d \in datos.index :
          d + 1 \in datos.index /\ datos.val[t][d] = Ent(0) /\ datos.val[t][d + 1] = Ent(0)
    /\ Filas(retornos) = Filas(datos) - 2

\* the path never falls from one row to the next
NoDecreciente(C) == \A i \in 1..Len(C) - 1 : Le(C[i], C[i + 1])

\* C7 as stated: the reported 'Max Drawdown (%)' of every instrument is
\* <= 0, and it is 0 only if the cumulative-return path is monotonically
\* non-decreasing.
C7_DrawdownCeroSoloMonotono ==
    Calculado =>
        \A t \in DOMAIN metricas :
            /\ Le(metricas[t].max_drawdown, Ent(0))
            /\ metricas[t].max_drawdown = Ent(0) => NoDecreciente(Cumulative(Ret(t)))

\* C7 amended: the reported 'Max Drawdown (%)' is NaN or <= 0; it is NaN
\* exactly when no row of the drawdown series is defined (no returns row, or
\* a path that is zero or not finite from its first row on); it is 0 on every
\* non-empty finite positive non-decreasing path; and a reported 0 says that
\* no fall from the running peak reaches 0.005 %, the path need not be
\* monotone.
C7_DrawdownRedondeado ==
    Calculado =>
        \A t \in DOMAIN metricas :
            LET v == metricas[t].max_drawdown
                C == Cumulative(Ret(t))
                dd == Drawdown(C)
            IN  /\ IsNaN(v) \/ (IsFin(v) /\ Le(v, Ent(0)))
                /\ IsNaN(v) <=> \A i \in 1..Len(dd) : IsNaN(dd[i])
                /\ (Len(C) >= 1 /\ Finitos(C) /\ Lt(Ent(0), C[1]) /\ NoDecreciente(C))
                      => v = Ent(0)
                /\ v = Ent(0) => Le(Frac(-1, 200), MaxDrawdown(Ret(t)))
                /\ Lt(v, Ent(0)) => ~NoDecreciente(C)

\* C7 witness: a path that rises and falls back by less than 0.005 % is
\* reported with a drawdown of 0
C7_Witness ==
    /\ Calculado
    /\ \E t \in DOMAIN metricas :
          /\ metricas[t].max_drawdown = Ent(0)
          /\ Len(Ret(t)) = 2
          /\ Lt(Ret(t)[2], Ent(0))
          /\ ~NoDecreciente(Cumulative(Ret(t)))

\* two or more finite returns, all equal
VarianzaCero(R) == StdDefinida(R) /\ \A i \in 1..Len(R) : R[i] = R[1]

\* C8: with an instrument whose daily returns have zero variance,
\* calcular_metricas returns its record (total return as the prices give it,
\* 21 % for [100,110,121]; daily volatility 0; a Sharpe that is infinite or
\* NaN) and the rest of the pass, which reads that Sharpe, does not raise.
C8_VarianzaCeroNoFalla ==
    (Calculado /\ \E t \in DOMAIN metricas : VarianzaCero(Ret(t))) =>
        /\ \A t \in DOMAIN metricas : VarianzaCero(Ret(t)) =>
              /\ metricas[t].rendimiento = Round2(Rendimiento(Col(datos, t)))
              /\ Col(datos, t) = <<Ent(100), Ent(110), Ent(121)>>
                    => metricas[t].rendimiento = Ent(21)
              /\ metricas[t].vol_diaria = Ent(0)
              /\ ~IsFin(metricas[t].sharpe)
        /\ salida # "excepcion"

\* C8 witness: the prices [100,110,121] alone: Sharpe is +inf and the pass
\* completes
C8_Witness ==
    /\ pc = "idle"
    /\ salida = "ok"
    /\ \E t \in DOMAIN metricas :
          /\ Col(datos, t) = <<Ent(100), Ent(110), Ent(121)>>
          /\ metricas[t].sharpe = PInf

\* the reported value in hundredths
Cent(v) == v[1] * (100 \div v[2])

\* a * a = 252 * d * d
Cuadra(a, d) == BSq(a) = BMulS(BSq(d), DiasAnio, 0)

\* C9 as stated: for every instrument the reported 'Volatilidad Anualizada
\* (%)' equals the reported 'Volatilidad Diaria (%)' times the square root of
\* 252, exactly.
C9_AnualizadaExacta ==
    Calculado =>
        \A t \in DOMAIN metricas :
            /\ IsFin(metricas[t].vol_anual)
            /\ IsFin(metricas[t].vol_diaria)
            /\ Cuadra(Cent(metricas[t].vol_anual), Cent(metricas[t].vol_diaria))

\* C9 amended: the two columns are NaN together (fewer than two returns, or
\* a return that is not finite); otherwise each is the standard deviation
\* scaled (by 100, by 100*sqrt(252)) and rounded on its own, so that the
\* annualised value A and the daily value D satisfy
\* sqrt(252)*(D - 0.005) <= A + 0.005 and A - 0.005 <= sqrt(252)*(D + 0.005),
\* and A = sqrt(252)*D exactly only when both are 0.
C9_AnualizadaRedondeada ==
    Calculado =>
        \A t \in DOMAIN metricas :
            LET A == metricas[t].vol_anual
                D == metricas[t].vol_diaria
            IN  /\ IsNaN(A) <=> ~StdDefinida(Ret(t))
                /\ IsNaN(D) <=> ~StdDefinida(Ret(t))
                /\ StdDefinida(Ret(t)) =>
                      /\ IsFin(A) /\ IsFin(D) /\ Cent(A) >= 0 /\ Cent(D) >= 0
                      /\ BLe(BSq(Abs(2 * Cent(A) - 1)),
                             BMulS(BSq(2 * Cent(D) + 1), DiasAnio, 0))
                      /\ Cent(D) = 0 \/
                         BLe(BMulS(BSq(2 * Cent(D) - 1), DiasAnio, 0),
                             BSq(2 * Cent(A) + 1))
                      /\ Cuadra(Cent(A), Cent(D)) <=> (Cent(A) = 0 /\ Cent(D) = 0)

\* C9 witness: a daily volatility of 0.01 % reported with an annualised one
\* of 0.11 %
C9_Witness ==
    /\ Calculado
    /\ \E t \in DOMAIN metricas :
          /\ metricas[t].vol_diaria = Frac(1, 100)
          /\ metricas[t].vol_anual = Frac(11, 100)

\* the correlation matrix of this pass has been computed
Correlacionado == pc = "idle" /\ salida = "ok"

N == Len(retornos.columns)

\* C10 as stated: the correlation matrix of every pass is symmetric and
\* every diagonal entry is 1, constant returns included.
C10_SimetricaDiagonalUno ==
    Correlacionado =>
        /\ \A i, j \in 1..N : correlaciones[i][j] = correlaciones[j][i]
        /\ \A i \in 1..N : EsUno(correlaciones[i][i])

\* at least two distinct finite values
Varia(R) == \E i, j \in 1..Len(R) : IsFin(R[i]) /\ IsFin(R[j]) /\ R[i] # R[j]

\* C10 amended: the correlation matrix is symmetric (two mirrored entries
\* are equal or both NaN); the diagonal entry of an instrument is 1 when its
\* returns hold two distinct finite values and NaN otherwise (constant
\* returns); no entry lies outside [-1, 1]; and a table with a single
\* returns row never reaches the matrix, because the best-Sharpe card raises
\* first.
C10_SimetricaDiagonalDefinida ==
    /\ Correlacionado =>
        /\ Filas(retornos) >= 2
        /\ \A i, j \in 1..N : correlaciones[i][j] = correlaciones[j][i]
        /\ \A i \in 1..N :
              correlaciones[i][i] # CorrNaN <=> Varia(Ret(retornos.columns[i]))
        /\ \A i \in 1..N :
              correlaciones[i][i] = CorrNaN \/ EsUno(correlaciones[i][i])
        /\ \A i, j \in 1..N :
              correlaciones[i][j] = CorrNaN
              \/ BLe(correlaciones[i][j][2], correlaciones[i][j][3])
    /\ (pc = "idle" /\ Calculado /\ Filas(retornos) < 2) => salida = "excepcion"

\* C10 witness: two instruments, one with constant returns and one without:
\* a defined off-diagonal-free matrix with diagonal <<NaN, 1>>
C10_Witness ==
    /\ Correlacionado
    /\ N = 2
    /\ correlaciones[1][1] = CorrNaN
    /\ EsUno(correlaciones[2][2])
    /\ VarianzaCero(Ret(retornos.columns[1]))

\* how often the provider was asked for the ticker t in this call
Veces(t) == Cardinality({i \in 1..Len(consultas) : consultas[i] = t})

\* the outcomes recorded so far: columns and warnings
Resultados == Len(datos.columns) + Len(errores)

\* C11: in an uncached call of descargar_datos the provider is asked once
\* per requested ticker, one ticker after the other in the order of the
\* list and with no retry: the tickers asked so far are the first idx of the
\* list, none of them twice, the outcome (column or warning) of each is
\* recorded before the next one is asked, and every step of the loop asks
\* for exactly the next ticker of the list; at the end all were asked once.
C11_UnaConsultaPorTicker ==
    /\ [](pc \in {"fetch", "comprobar"} =>
            /\ consultas = SubSeq(activos_seleccionados, 1, idx)
            /\ Resultados = Len(consultas)
            /\ \A t \in Range(activos_seleccionados) : Veces(t) <= 1
            /\ pc = "comprobar" =>
                  \A t \in Range(activos_seleccionados) : Veces(t) = 1)
    /\ [][consultas' # consultas =>
            /\ Resultados = Len(consultas)
            /\ consultas' = Append(consultas, activos_seleccionados[Len(consultas) + 1])
            /\ Resultados' = Len(consultas')]_vars

\* C11 witness: three tickers were requested, the first two failed (an empty
\* answer, then an exception) and the call still asked for each of the three
\* once, in order
C11_Witness ==
    /\ pc = "comprobar"
    /\ Len(activos_seleccionados) = 3
    /\ consultas = activos_seleccionados
    /\ respuestas[activos_seleccionados[1]].tipo = "vacio"
    /\ respuestas[activos_seleccionados[2]].tipo = "excepcion"
    /\ respuestas[activos_seleccionados[3]].tipo = "ok"
    /\ Len(errores) = 2

\* the positions of the strictly negative returns of R
Bajas(R) == {i \in 1..Len(R) : R[i][1] < 0}

\* the strictly negative returns of R, in order
SoloBajas(R) == [k \in 1..Cardinality(Bajas(R)) |->
                    R[CHOOSE i \in Bajas(R) :
                        Cardinality({j \in Bajas(R) : j <= i}) = k]]

Iguales(X) == \A i \in 1..Len(X) : X[i] = X[1]

\* (252 * mean(R)^2) / var(X) in units of 1/10000, as the fraction P / Q:
\* the square of the ratio in hundredths
CuadradoP(R, X) ==
    BMul(BMulS(BN(Base), DiasAnio, 0),
         BMul(BMul(BSq(Abs(SumaEnt(Enteros(R, DenComun(R))))), BSq(DenComun(X))),
              BN(Len(X) * (Len(X) - 1))))

CuadradoQ(R, X) ==
    BMul(BMul(BSq(Len(R)), BSq(DenComun(R))), Desvios(Enteros(X, DenComun(X))))

\* k hundredths is the ratio P / Q's square root rounded: |sqrt(P/Q) - k| <= 1/2
Redondea(k, P, Q) ==
    /\ BLe(BMulS(P, 4, 0), BMul(BSq(2 * k + 1), Q))
    /\ k = 0 \/ BLe(BMul(BSq(2 * k - 1), Q), BMulS(P, 4, 0))

\* C12: the Sortino of every instrument divides the mean of all its returns
\* by the sample standard deviation of its strictly negative returns only
\* (zero and positive returns left out), with no guard: calcular_metricas
\* returns a row for every instrument, and with no negative return or a
\* single one the Sortino reported is NaN, never a finite number; with two or
\* more equal negative returns it is mean/0 (infinite or NaN); otherwise it
\* is sqrt(252) * mean(all) / std(negatives) rounded to 2 decimals.
C12_SortinoSoloNegativos ==
    Calculado =>
        /\ DOMAIN metricas = Range(datos.columns)
        /\ \A t \in DOMAIN metricas :
            LET R == Ret(t)
                X == SoloBajas(R)
                v == metricas[t].sortino
            IN  /\ Len(X) <= 1 => IsNaN(v)
                /\ (Len(X) >= 2 /\ Finitos(R) /\ Iguales(X)) =>
                      (~IsFin(v) /\ v = Div(Mean(R), Ent(0)))
                /\ (Len(X) >= 2 /\ Finitos(R) /\ ~Iguales(X)) =>
                      /\ IsFin(v)
                      /\ Sgn(v) \in {0, Sgn(Mean(R))}
                      /\ Redondea(Abs(Cent(v)), CuadradoP(R, X), CuadradoQ(R, X))

\* C12 witness: one instrument with no negative return and one with a single
\* negative return next to a zero return, both reported with a NaN Sortino
C12_Witness ==
    /\ Calculado
    /\ \E t \in DOMAIN metricas :
          /\ Len(Ret(t)) = 2
          /\ Bajas(Ret(t)) = {}
          /\ IsNaN(metricas[t].sortino)
    /\ \E t \in DOMAIN metricas :
          /\ Cardinality(Bajas(Ret(t))) = 1
          /\ \E i \in 1..Len(Ret(t)) : Ret(t)[i] = Ent(0)
          /\ IsNaN(metricas[t].sortino)

\* the positions of a pass before descargar_datos has returned
AntesDeDescargar == {"sidebar", "validar", "descargar", "fetch"}

\* C13: pressing the cache-clear button empties the whole cache and restarts
\* the pass at once, nothing else of the pass that saw the button being run;
\* the restarted pass, when something is selected, misses the cache and asks
\* the provider once for every selected ticker, however recently the same
\* tickers and dates were fetched.
C13_LimpiarVaciaYReinicia ==
    /\ [](limpiar => (pc = "sidebar" /\ consultas = <<>> /\ metricas = Nada))
    /\ [][(pc = "sidebar" /\ limpiar) =>
            /\ cache' = {}
            /\ pc' = "sidebar"
            /\ reinicio' /\ ~limpiar'
            /\ pasadas' = pasadas + 1
            /\ consultas' = <<>> /\ salida' = "ninguna" /\ metricas' = Nada
            /\ activos_seleccionados' = activos_seleccionados
            /\ tipo_periodo' = tipo_periodo /\ periodo' = periodo
            /\ desde' = desde /\ hasta' = hasta]_vars
    /\ [](reinicio =>
            /\ pc \in AntesDeDescargar => cache = {}
            /\ pc = "fetch" => consultas = SubSeq(activos_seleccionados, 1, idx)
            /\ (pc \notin AntesDeDescargar /\ activos_seleccionados # <<>>) =>
                  /\ consultas = activos_seleccionados
                  /\ \A t \in Range(activos_seleccionados) :
                        Cardinality({i \in 1..Len(consultas) : consultas[i] = t}) = 1)
    /\ [][(reinicio /\ pc = "descargar") => pc' = "fetch"]_vars

\* C13 witness: custom dates; the two tickers were fetched and cached at
\* second 1, the button was pressed at second 2, and the pass restarted at
\* second 3 has asked the provider for both again
C13_Witness ==
    /\ reinicio
    /\ pc = "comprobar"
    /\ tipo_periodo = "Personalizado"
    /\ now = 3
    /\ pasadas = 4
    /\ Len(activos_seleccionados) = 2
    /\ consultas = activos_seleccionados

====
